---- MODULE Spec2Model ----
(***************************************************************************)
(* Model of the reference decorators of pip-services-container-node:       *)
(*   BuildReferencesDecorator (find / findFactory / create /               *)
(*   clarifyLocator) and RunReferencesDecorator (open / close / put /      *)
(*   remove / removeAll), file src/src/refer/BuildReferencesDecorator.ts.  *)
(* The reference set itself (References, ReferencesDecorator) and the bulk *)
(* Opener / Closer helpers are imported by that file; they are modelled    *)
(* from their documented contract.                                         *)
(***************************************************************************)
EXTENDS Integers, Sequences, FiniteSets, TLC

---------------------------------------------------------------------------
\* Bounds of the model.

\* Largest number of references kept in a reference set of the Build decorator.
MaxRefs == 3

\* Largest number of bulk open / close batches in flight at one time.
MaxBatches == 2

---------------------------------------------------------------------------
\* Values.

\* A null field of a descriptor, a null component, a null error.
Null == "null"

\* Descriptor(group, type, kind, name, version).
Descriptor(g, t, k, n, v) ==
    [tag |-> "desc", group |-> g, type |-> t, kind |-> k, name |-> n, version |-> v]

\* A locator that is not a Descriptor (a string key).
StrLocator(s) ==
    [tag |-> "str", group |-> Null, type |-> Null, kind |-> Null, name |-> s, version |-> Null]

\* The null locator (canCreate's "cannot create").
NullLoc ==
    [tag |-> "null", group |-> Null, type |-> Null, kind |-> Null, name |-> Null, version |-> Null]

\* The outcome of a canCreate call that raised instead of returning.
Raised ==
    [tag |-> "raise", group |-> Null, type |-> Null, kind |-> Null, name |-> Null, version |-> Null]

\* locator instanceof Descriptor
IsDescriptor(l) == l.tag = "desc"

\* Descriptor.matchField: equal, or either side wildcarded (null).
MatchField(f1, f2) == f1 = Null \/ f2 = Null \/ f1 = f2

\* Two locators match: descriptors field by field, other keys by equality.
MatchLocator(l1, l2) ==
    IF IsDescriptor(l1) /\ IsDescriptor(l2)
    THEN /\ MatchField(l1.group, l2.group)
         /\ MatchField(l1.type, l2.type)
         /\ MatchField(l1.kind, l2.kind)
         /\ MatchField(l1.name, l2.name)
         /\ MatchField(l1.version, l2.version)
    ELSE l1 = l2

---------------------------------------------------------------------------
\* The reference set: an ordered sequence of (locator, component) pairs.

Reference(l, c) == [locator |-> l, component |-> c]

\* References.put: append.
RefPut(refs, l, c) == Append(refs, Reference(l, c))

\* References.getAll: every component, in insertion order.
RefGetAll(refs) == [i \in 1..Len(refs) |-> refs[i].component]

\* Indices of the references that match a locator.
MatchingIdx(refs, l) == {i \in 1..Len(refs) : MatchLocator(refs[i].locator, l)}

\* References.find(locator, false): the matching components, in insertion order.
RefFind(refs, l) ==
    RefGetAll(SelectSeq(refs, LAMBDA r : MatchLocator(r.locator, l)))

\* The sequence without its i-th element.
DropAt(s, i) == [j \in 1..(Len(s) - 1) |-> IF j < i THEN s[j] ELSE s[j + 1]]

\* The least element of a non-empty set of numbers.
MinOf(S) == CHOOSE x \in S : \A y \in S : x <= y

\* References.remove: the set without its first matching reference.
RefRemove(refs, l) ==
    IF MatchingIdx(refs, l) = {} THEN refs ELSE DropAt(refs, MinOf(MatchingIdx(refs, l)))

\* References.remove: the component it returns (none when nothing matches).
RefRemoved(refs, l) ==
    IF MatchingIdx(refs, l) = {} THEN <<>> ELSE <<refs[MinOf(MatchingIdx(refs, l))].component>>

\* References.removeAll: the set without its matching references.
RefRemoveAll(refs, l) == SelectSeq(refs, LAMBDA r : ~MatchLocator(r.locator, l))

---------------------------------------------------------------------------
\* Build decorator: the components its reference sets may hold.

\* Factories F1 and F2 (canCreate and create; F2's canCreate raises for one
\* locator, its create raises for another and produces nothing for a third),
\* K1 and K2 (factories whose canCreate answers every locator with one fixed
\* descriptor), H (canCreate only), P (neither), and the components m1, m2
\* that the factories create.
BuildComponents == {"F1", "F2", "K1", "K2", "H", "P", "m1", "m2"}

\* _.isFunction(component.canCreate)
HasCanCreate(c) == c \in {"F1", "F2", "K1", "K2", "H"}

\* _.isFunction(component.create)
HasCreate(c) == c \in {"F1", "F2", "K1", "K2"}

\* The locators callers look up and register under.
LA == Descriptor("g", Null, "k", Null, Null)

LB == Descriptor("g", "t", "k", "n", "v")

LC == Descriptor("h", Null, Null, "c", Null)

LS == StrLocator("s")

\* The locator every factory is registered under.
LF == Descriptor("pip-services", "factory", Null, Null, Null)

Locators == {LA, LB, LC, LS}

\* component.canCreate(locator): a locator, NullLoc, or Raised.
CanCreateOf(f, l) ==
    CASE f = "F1" /\ l = LA -> Descriptor("g2", "t", "k2", "n", "v")
      [] f = "F1" /\ l = LB -> LB
      [] f = "F1" /\ l = LS -> LS
      [] f = "F2" /\ l = LA -> LB
      [] f = "F2" /\ l = LB -> Raised
      [] f = "F2" /\ l = LC -> LC
      [] f = "F2" /\ l = LS -> LS
      [] f = "K1" -> Descriptor("g2", "t2", "k2", "n2", "v2")
      [] f = "K2" -> Descriptor("g2", Null, "k2", Null, "v2")
      [] f = "H" -> l
      [] OTHER -> NullLoc

\* factory.create(locator): a component, Null (nothing produced), or "raise".
CreateOf(f, l) ==
    CASE f = "F1" -> "m1"
      [] f = "F2" /\ l = LA -> "m2"
      [] f = "F2" /\ l = LC -> "raise"
      [] OTHER -> Null

---------------------------------------------------------------------------
\* Build decorator: findFactory, create, clarifyLocator, find.

\* The scan of findFactory from index i: the factory found (Null when none),
\* whether a canCreate call raised (the exception leaves findFactory), and
\* the components whose canCreate was called, in order.
RECURSIVE FindFactoryFrom(_, _, _)
FindFactoryFrom(components, index, locator) ==
    IF index > Len(components)
    THEN [factory |-> Null, raised |-> FALSE, probed |-> <<>>]
    ELSE LET component == components[index]
         IN  IF HasCanCreate(component) /\ HasCreate(component)
             THEN IF CanCreateOf(component, locator) = Raised
                  THEN [factory |-> Null, raised |-> TRUE, probed |-> <<component>>]
                  ELSE IF CanCreateOf(component, locator) # NullLoc
                  THEN [factory |-> component, raised |-> FALSE, probed |-> <<component>>]
                  ELSE LET rest == FindFactoryFrom(components, index + 1, locator)
                       IN  [rest EXCEPT !.probed = <<component>> \o @]
             ELSE FindFactoryFrom(components, index + 1, locator)

\* findFactory(locator) over getAll().
FindFactory(components, locator) == FindFactoryFrom(components, 1, locator)

\* A variant of Create without the try / catch around factory.create.
CreateUnguarded(locator, factory) ==
    IF factory = Null THEN Null ELSE CreateOf(factory, locator)

\* create(locator, factory): the component, or Null when the factory is null,
\* raises, or produces nothing.
Create(locator, factory) ==
    IF factory = Null THEN Null
    ELSE IF CreateOf(factory, locator) = "raise" THEN Null
    ELSE CreateOf(factory, locator)

\* A variant of ClarifyField that prefers the factory's field.
ClarifyFieldAnother(f, another) == IF another # Null THEN another ELSE f

\* One field of the merged descriptor: the original's when it is non-null.
ClarifyField(f, another) == IF f # Null THEN f ELSE another

\* A variant of ClarifyLocator that returns the locator as given.
ClarifyLocatorKeep(locator, factory) == locator

\* clarifyLocator(locator, factory); Raised when its canCreate call raises.
ClarifyLocator(locator, factory) ==
    IF factory = Null THEN locator
    ELSE IF ~IsDescriptor(locator) THEN locator
    ELSE LET anotherLocator == CanCreateOf(factory, locator)
         IN  IF anotherLocator = Raised THEN Raised
             ELSE IF anotherLocator = NullLoc THEN locator
             ELSE IF ~IsDescriptor(anotherLocator) THEN locator
             ELSE Descriptor(ClarifyField(locator.group, anotherLocator.group),
                             ClarifyField(locator.type, anotherLocator.type),
                             ClarifyField(locator.kind, anotherLocator.kind),
                             ClarifyField(locator.name, anotherLocator.name),
                             ClarifyField(locator.version, anotherLocator.version))

\* A variant of ShouldBuild that builds whether or not the caller requires it.
ShouldBuildUnrequired(required, components) == Len(components) = 0

\* find: whether it goes on to the factories (required, and nothing found).
ShouldBuild(required, components) == required /\ Len(components) = 0

\* What one call find(locator, required) does, given the base set and whether
\* parentReferences.put succeeds (putOk): the components found in the base
\* set, the factory scan, the component built, the locator it is registered
\* under, whether the put was reached and completed, the components returned,
\* and the exception raised ("none", "ReferenceException" or "ProbeError")
\* with the locator it carries.
Find(base, locator, required, putOk) ==
    LET components == RefFind(base, locator)
        build      == ShouldBuild(required, components)
        scan       == IF build THEN FindFactory(RefGetAll(base), locator)
                      ELSE [factory |-> Null, raised |-> FALSE, probed |-> <<>>]
        factory    == scan.factory
        createCalled == build /\ ~scan.raised /\ factory # Null
        component  == IF build /\ ~scan.raised THEN Create(locator, factory) ELSE Null
        clarified  == IF component # Null THEN ClarifyLocator(locator, factory) ELSE NullLoc
        putReached == component # Null /\ clarified # Raised
        registered == putReached /\ putOk
        locator2   == IF putReached THEN clarified ELSE locator
        result     == IF registered THEN Append(components, component) ELSE components
        raised     == IF scan.raised THEN "ProbeError"
                      ELSE IF required /\ Len(result) = 0 THEN "ReferenceException"
                      ELSE "none"
    IN  [op |-> "find", locator |-> locator, required |-> required,
         putOk |-> putReached => putOk,
         found |-> components, probed |-> scan.probed,
         created |-> IF createCalled THEN <<factory>> ELSE <<>>,
         factory |-> factory, component |-> component,
         putLocator |-> IF putReached THEN clarified ELSE NullLoc,
         registered |-> registered,
         result |-> IF raised = "none" THEN result ELSE <<>>,
         raised |-> raised,
         errLocator |-> IF raised = "ReferenceException" THEN locator2 ELSE NullLoc]

---------------------------------------------------------------------------
\* Run decorator: components, and the bulk Opener / Closer helpers.

\* A and B expose open and close; P exposes neither.
RunComponents == {"A", "B", "P"}

\* _.isFunction(component.open)
HasOpen(c) == c \in {"A", "B"}

\* _.isFunction(component.close)
HasClose(c) == c \in {"A", "B"}

\* The pairs callers register with the Run decorator.
RunPairs == {Reference(LB, "A"), Reference(LB, "B"), Reference(LS, "P")}

\* The locators callers remove by.
RunLocators == {LB, LS}

\* The component operation a bulk operation of the given kind invokes
\* ("open", "close", or "removeAll": the bulk close of removed components).
OpOf(kind) == IF kind = "open" THEN "open" ELSE "close"

\* Whether a bulk operation of the given kind calls the component at all.
Capable(kind, c) == IF kind = "open" THEN HasOpen(c) ELSE HasClose(c)

\* The components a bulk operation calls, in order: those without the
\* capability are skipped.
Callable(kind, components) == SelectSeq(components, LAMBDA c : Capable(kind, c))

\* Opener.openOne(null, component, null): the calls it makes.
OpenOne(component) == IF HasOpen(component) THEN <<<<"open", component>>>> ELSE <<>>

\* Closer.closeOne(null, component, null): the calls it makes.
CloseOne(component) == IF HasClose(component) THEN <<<<"close", component>>>> ELSE <<>>

\* A bulk operation in flight: the components still to be called, the first
\* of them being the one whose call is in flight; alone: no other bulk open
\* has been in flight at the same time (kept for bulk opens).
Batch(kind, rest, alone) == [kind |-> kind, rest |-> rest, alone |-> alone]

\* Opener.open / Closer.close, one component at a time: the components left
\* after the call in flight has completed; the first error ends the batch.
AfterCallback(rest, ok) == IF ok THEN Tail(rest) ELSE <<>>

\* A variant of OpenedAfterOpen that sets the flag whatever the error.
OpenedAfterOpenAlways(flag, err) == TRUE

\* A variant of OpenedAfterOpen that sets the flag when the open failed.
OpenedAfterOpenOnError(flag, err) == IF err = Null THEN flag ELSE TRUE

\* RunReferencesDecorator.open, the callback given to Opener.open: the flag
\* after the bulk open has ended with err (Null: no error).
OpenedAfterOpen(flag, err) == IF err = Null THEN TRUE ELSE flag

\* A variant of OpenedAfterClose that keeps the flag when the close failed.
OpenedAfterCloseUnlessError(flag, err) == IF err = Null THEN FALSE ELSE flag

\* RunReferencesDecorator.close, the callback given to Closer.close: the flag
\* after the bulk close has ended with err.
OpenedAfterClose(flag, err) == FALSE

\* A variant of OpenComponents without the guard on the flag.
OpenComponentsUnguarded(flag, components) == components

\* RunReferencesDecorator.open: the components handed to Opener.open; none
\* when the decorator is already opened.
OpenComponents(flag, components) == IF ~flag THEN components ELSE <<>>

\* A sequence in the opposite order.
Reverse(seq) == [i \in 1..Len(seq) |-> seq[Len(seq) + 1 - i]]

\* A variant of CloseComponents that hands the components over last first.
CloseComponentsReversed(flag, components) == IF flag THEN Reverse(components) ELSE <<>>

\* A variant of CloseComponents without the guard on the flag.
CloseComponentsUnguarded(flag, components) == components

\* RunReferencesDecorator.close: the components handed to Closer.close; none
\* when the decorator is already closed.
CloseComponents(flag, components) == IF flag THEN components ELSE <<>>

\* The error the decorator hands to its caller's callback when a bulk
\* operation ends with err: open and close pass it on, removeAll gives
\* Closer.close no callback.
ForwardedErr(kind, err) == IF kind = "removeAll" THEN Null ELSE err

\* A variant of PutCalls that opens the component whatever the flag.
PutCallsAlways(flag, component) == OpenOne(component)

\* RunReferencesDecorator.put: the component calls it makes after the base put.
PutCalls(flag, component) == IF flag THEN OpenOne(component) ELSE <<>>

\* RunReferencesDecorator.remove: the component calls it makes after the base
\* remove (removed: the component returned, none when nothing matched).
RemoveCalls(flag, removed) ==
    IF flag /\ Len(removed) > 0 THEN CloseOne(removed[1]) ELSE <<>>

\* RunReferencesDecorator.removeAll: the components handed to Closer.close.
RemoveAllComponents(flag, removed) == IF flag THEN removed ELSE <<>>

---------------------------------------------------------------------------
\* State.

VARIABLES
    baseReferences,     \* Build decorator: the base set
    parentReferences,   \* Build decorator: the parent set, when it is another set
    shared,             \* Build decorator: base and parent are the same set
    call,               \* Build decorator: the last call and what it did
    runReferences,      \* Run decorator: the base set
    opened,             \* Run decorator: the _opened flag
    batches,            \* Run decorator: the bulk opens and closes in flight
    running,            \* per component: open invoked since its last close
    event               \* Run decorator: the last step and what it did

buildVars == <<baseReferences, parentReferences, shared, call>>

runVars == <<runReferences, opened, batches, running, event>>

vars == <<baseReferences, parentReferences, shared, call,
          runReferences, opened, batches, running, event>>

\* The set parentReferences.put writes to and parentReferences.find reads.
ParentSet == IF shared THEN baseReferences ELSE parentReferences

\* A call that is not a find.
OtherCall(op, l, c) ==
    [op |-> op, locator |-> l, required |-> FALSE, putOk |-> TRUE,
     found |-> <<>>, probed |-> <<>>, created |-> <<>>,
     factory |-> Null, component |-> c, putLocator |-> NullLoc,
     registered |-> FALSE, result |-> <<>>, raised |-> "none", errLocator |-> NullLoc]

\* The pairs callers register: the factories under LF, P under LB.
BuildPairs ==
    {Reference(LF, f) : f \in {"F1", "F2", "H"}} \cup {Reference(LB, "P")}

BuildInit ==
    /\ baseReferences = <<>>
    /\ parentReferences = <<>>
    /\ shared \in BOOLEAN
    /\ call = OtherCall("new", NullLoc, Null)

\* ReferencesDecorator.put on the Build decorator: base put.
BuildPut ==
    \E r \in BuildPairs :
        /\ Len(baseReferences) < MaxRefs
        /\ baseReferences' = RefPut(baseReferences, r.locator, r.component)
        /\ call' = OtherCall("put", r.locator, r.component)
        /\ UNCHANGED <<parentReferences, shared>>
        /\ UNCHANGED runVars

\* ReferencesDecorator.remove on the Build decorator: base remove.
BuildRemove ==
    \E l \in {LB} :
        /\ baseReferences' = RefRemove(baseReferences, l)
        /\ call' = [OtherCall("remove", l, Null) EXCEPT !.result = RefRemoved(baseReferences, l)]
        /\ UNCHANGED <<parentReferences, shared>>
        /\ UNCHANGED runVars

\* BuildReferencesDecorator.find.
BuildFind ==
    \E l \in Locators, required \in BOOLEAN, putOk \in BOOLEAN :
        LET f == Find(baseReferences, l, required, putOk)
        IN  /\ f.registered => Len(ParentSet) < MaxRefs
            /\ call' = f
            /\ IF f.registered
               THEN IF shared
                    THEN /\ baseReferences' = RefPut(baseReferences, f.putLocator, f.component)
                         /\ UNCHANGED parentReferences
                    ELSE /\ parentReferences' = RefPut(parentReferences, f.putLocator, f.component)
                         /\ UNCHANGED baseReferences
               ELSE UNCHANGED <<baseReferences, parentReferences>>
            /\ UNCHANGED shared
            /\ UNCHANGED runVars

\* BuildReferencesDecorator.findFactory, called directly.
BuildFindFactory ==
    \E l \in Locators :
        LET scan == FindFactory(RefGetAll(baseReferences), l)
        IN  /\ call' = [OtherCall("findFactory", l, Null) EXCEPT
                            !.probed = scan.probed,
                            !.factory = scan.factory,
                            !.result = IF scan.raised THEN <<>> ELSE <<scan.factory>>,
                            !.raised = IF scan.raised THEN "ProbeError" ELSE "none"]
            /\ UNCHANGED <<baseReferences, parentReferences, shared>>
            /\ UNCHANGED runVars

\* The locators clarifyLocator is called with: every descriptor with each
\* field either set or null, and a locator that is not a descriptor.
ClarifyLocators ==
    {Descriptor(g, t, k, n, v) :
        g \in {Null, "g"}, t \in {Null, "t"}, k \in {Null, "k"},
        n \in {Null, "n"}, v \in {Null, "v"}} \cup {LS}

\* The factories clarifyLocator is called with (Null: no factory).
ClarifyFactories == {Null, "F1", "F2", "K1", "K2", "H"}

\* BuildReferencesDecorator.clarifyLocator, called directly.
BuildClarify ==
    \E l \in ClarifyLocators, f \in ClarifyFactories :
        LET r == ClarifyLocator(l, f)
        IN  /\ call' = [OtherCall("clarifyLocator", l, Null) EXCEPT
                            !.factory = f,
                            !.result = IF r = Raised THEN <<>> ELSE <<r>>,
                            !.raised = IF r = Raised THEN "ProbeError" ELSE "none"]
            /\ UNCHANGED <<baseReferences, parentReferences, shared>>
            /\ UNCHANGED runVars

---------------------------------------------------------------------------
\* Run decorator: state and steps.

\* What a step was, as far as an open or a close call right after it is
\* concerned: an
\* open whose callback reported no error ("openOk") or an error ("openErr"),
\* an open call whose bulk open is still in flight ("openCall"), or "other".
PrevOf(e) ==
    IF e.ended = "open" THEN (IF e.err = Null THEN "openOk" ELSE "openErr")
    ELSE IF e.op = "open" THEN "openCall"
    ELSE "other"

\* The record of one step: the operation and its arguments, the flag before
\* it, the component calls it made, what it returned, the outcome of the
\* component call that completed in it (Null, or the component that reported
\* an error), the bulk operation that ended in it ("none" when none did) with
\* the error handed to the caller's callback, the components that batch
\* never called, whether it ran with no other bulk open in flight, and, for
\* an open or a close call, what the step before it was.
RunEvent(op, l, c, invoked, returned, outcome, ended, err, dropped, alone) ==
    [op |-> op, locator |-> l, component |-> c, flag |-> opened,
     invoked |-> invoked, returned |-> returned, outcome |-> outcome,
     ended |-> ended, err |-> err, dropped |-> dropped, alone |-> alone,
     prev |-> IF op \in {"open", "close"} THEN PrevOf(event) ELSE "other"]

\* The call a batch makes on the first of the given components.
CallOf(kind, rest) == <<<<OpOf(kind), Head(rest)>>>>

\* Which components are running after the given component calls.
ApplyCalls(r, calls) ==
    IF calls = <<>> THEN r ELSE [r EXCEPT ![calls[1][2]] = (calls[1][1] = "open")]

\* A component's callback to a batch of the given kind: the batch goes on to
\* its next component, or ends.
BatchCallback(kind, op) ==
    \E i \in 1..Len(batches), ok \in BOOLEAN :
        /\ batches[i].kind = kind
        /\ LET b    == batches[i]
               err  == IF ok THEN Null ELSE Head(b.rest)
               rest == AfterCallback(b.rest, ok)
           IN  IF rest = <<>>
               THEN /\ batches' = DropAt(batches, i)
                    /\ event' = RunEvent(op, NullLoc, Null, <<>>, <<>>, err, kind,
                                         ForwardedErr(kind, err), Tail(b.rest), b.alone)
                    /\ opened' = IF kind = "open" THEN OpenedAfterOpen(opened, err)
                                 ELSE IF kind = "close" THEN OpenedAfterClose(opened, err)
                                 ELSE opened
                    /\ UNCHANGED running
               ELSE /\ batches' = [batches EXCEPT ![i].rest = rest]
                    /\ running' = ApplyCalls(running, CallOf(kind, rest))
                    /\ event' = RunEvent(op, NullLoc, Null, CallOf(kind, rest), <<>>, err,
                                         "none", Null, <<>>, TRUE)
                    /\ UNCHANGED opened
        /\ UNCHANGED runReferences
        /\ UNCHANGED buildVars

RunInit ==
    /\ runReferences = <<>>
    /\ opened = FALSE
    /\ batches = <<>>
    /\ running = [c \in {x \in RunComponents : HasOpen(x)} |-> FALSE]
    /\ event = [op |-> "new", locator |-> NullLoc, component |-> Null, flag |-> FALSE,
                invoked |-> <<>>, returned |-> <<>>, outcome |-> Null,
                ended |-> "none", err |-> Null, dropped |-> <<>>, alone |-> TRUE,
                prev |-> "other"]

\* RunReferencesDecorator.isOpen: returns the flag.
RunIsOpen ==
    /\ event' = RunEvent("isOpen", NullLoc, Null, <<>>, <<opened>>, Null, "none", Null,
                         <<>>, TRUE)
    /\ UNCHANGED <<runReferences, opened, batches, running>>
    /\ UNCHANGED buildVars

\* RunReferencesDecorator.open: a bulk open over getAll() unless opened.
RunOpen ==
    LET rest    == Callable("open", OpenComponents(opened, RefGetAll(runReferences)))
        alone   == \A i \in 1..Len(batches) : batches[i].kind # "open"
        overlap == [i \in 1..Len(batches) |->
                       IF batches[i].kind = "open" /\ ~opened
                       THEN [batches[i] EXCEPT !.alone = FALSE]
                       ELSE batches[i]]
    IN  /\ IF rest = <<>>
           THEN /\ opened' = IF ~opened THEN OpenedAfterOpen(opened, Null) ELSE opened
                /\ batches' = overlap
                /\ event' = RunEvent("open", NullLoc, Null, <<>>, <<>>, Null, "open",
                                     ForwardedErr("open", Null), <<>>, alone)
                /\ UNCHANGED running
           ELSE /\ Len(batches) < MaxBatches
                /\ batches' = Append(overlap, Batch("open", rest, alone))
                /\ running' = ApplyCalls(running, CallOf("open", rest))
                /\ event' = RunEvent("open", NullLoc, Null, CallOf("open", rest), <<>>, Null,
                                     "none", Null, <<>>, TRUE)
                /\ UNCHANGED opened
        /\ UNCHANGED runReferences
        /\ UNCHANGED buildVars

\* The callback a component's open gives to Opener.open: on an error, or after
\* the last component, the decorator's callback runs; otherwise the next
\* component is opened.
OpenCallback == BatchCallback("open", "openCallback")

\* RunReferencesDecorator.close: a bulk close over getAll() if opened.
RunClose ==
    LET rest == Callable("close", CloseComponents(opened, RefGetAll(runReferences)))
    IN  /\ IF rest = <<>>
           THEN /\ opened' = IF opened THEN OpenedAfterClose(opened, Null) ELSE opened
                /\ event' = RunEvent("close", NullLoc, Null, <<>>, <<>>, Null, "close",
                                     ForwardedErr("close", Null), <<>>, TRUE)
                /\ UNCHANGED <<batches, running>>
           ELSE /\ Len(batches) < MaxBatches
                /\ batches' = Append(batches, Batch("close", rest, TRUE))
                /\ running' = ApplyCalls(running, CallOf("close", rest))
                /\ event' = RunEvent("close", NullLoc, Null, CallOf("close", rest), <<>>, Null,
                                     "none", Null, <<>>, TRUE)
                /\ UNCHANGED opened
        /\ UNCHANGED runReferences
        /\ UNCHANGED buildVars

\* The callback a component's close gives to Closer.close, for the bulk close
\* of RunReferencesDecorator.close.
CloseCallback == BatchCallback("close", "closeCallback")

\* RunReferencesDecorator.put: base put, then openOne if opened.  A pair is
\* registered while it is not in the set, which keeps the set finite.
RunPut ==
    \E r \in RunPairs :
        /\ \A i \in 1..Len(runReferences) : runReferences[i] # r
        /\ runReferences' = RefPut(runReferences, r.locator, r.component)
        /\ running' = ApplyCalls(running, PutCalls(opened, r.component))
        /\ event' = RunEvent("put", r.locator, r.component, PutCalls(opened, r.component),
                             <<>>, Null, "none", Null, <<>>, TRUE)
        /\ UNCHANGED <<opened, batches>>
        /\ UNCHANGED buildVars

\* RunReferencesDecorator.remove: base remove, then closeOne if opened.
RunRemove ==
    \E l \in RunLocators :
        LET removed == RefRemoved(runReferences, l)
        IN  /\ runReferences' = RefRemove(runReferences, l)
            /\ running' = ApplyCalls(running, RemoveCalls(opened, removed))
            /\ event' = RunEvent("remove", l, Null, RemoveCalls(opened, removed), removed,
                                 Null, "none", Null, <<>>, TRUE)
            /\ UNCHANGED <<opened, batches>>
            /\ UNCHANGED buildVars

\* RunReferencesDecorator.removeAll: base removeAll, then a bulk close of the
\* removed components if opened.
RunRemoveAll ==
    \E l \in RunLocators :
        LET removed == RefFind(runReferences, l)
            rest    == Callable("removeAll", RemoveAllComponents(opened, removed))
        IN  /\ runReferences' = RefRemoveAll(runReferences, l)
            /\ IF rest = <<>>
               THEN /\ event' = RunEvent("removeAll", l, Null, <<>>, removed, Null,
                                         IF opened THEN "removeAll" ELSE "none", Null,
                                         <<>>, TRUE)
                    /\ UNCHANGED <<batches, running>>
               ELSE /\ Len(batches) < MaxBatches
                    /\ batches' = Append(batches, Batch("removeAll", rest, TRUE))
                    /\ running' = ApplyCalls(running, CallOf("removeAll", rest))
                    /\ event' = RunEvent("removeAll", l, Null, CallOf("removeAll", rest),
                                         removed, Null, "none", Null, <<>>, TRUE)
            /\ UNCHANGED opened
            /\ UNCHANGED buildVars

\* The callback a component's close gives to Closer.close, for the bulk close
\* of removeAll (the decorator passes no callback of its own).
RemoveAllCallback == BatchCallback("removeAll", "removeAllCallback")

---------------------------------------------------------------------------
\* Specifications.

Init == BuildInit /\ RunInit

BuildNext == BuildPut \/ BuildRemove \/ BuildFind \/ BuildFindFactory

RunNext ==
    \/ RunOpen
    \/ OpenCallback
    \/ RunClose
    \/ CloseCallback
    \/ RunPut
    \/ RunRemove
    \/ RunRemoveAll
    \/ RemoveAllCallback
    \/ RunIsOpen

\* The Build decorator alone.
SpecBuild == Init /\ [][BuildNext]_vars

\* clarifyLocator alone, over every locator and factory of the model.
ClarifyNext == BuildClarify

SpecClarify == Init /\ [][ClarifyNext]_vars

\* The Run decorator alone (one Build configuration, left untouched).
InitRun == Init /\ shared = TRUE

SpecRun == InitRun /\ [][RunNext]_vars

---------------------------------------------------------------------------
\* Properties of the Build decorator (checked under SpecBuild).

\* Whether a component is an element of a sequence of components.
InSeq(c, seq) == \E i \in 1..Len(seq) : seq[i] = c

\* The first factory of the scan whose canCreate returns a locator, a
\* canCreate that raises counting as "cannot create" (Null when none).
RECURSIVE TolerantFactoryFrom(_, _, _)
TolerantFactoryFrom(components, index, locator) ==
    IF index > Len(components) THEN Null
    ELSE IF /\ HasCanCreate(components[index])
            /\ HasCreate(components[index])
            /\ CanCreateOf(components[index], locator) \notin {NullLoc, Raised}
         THEN components[index]
         ELSE TolerantFactoryFrom(components, index + 1, locator)

\* Some registered factory can create the locator: the first factory that
\* answers canCreate with a locator also creates a component for it.
Buildable(base, locator) ==
    LET f == TolerantFactoryFrom(RefGetAll(base), 1, locator)
    IN  f # Null /\ CreateOf(f, locator) \notin {Null, "raise"}

\* C1, as claimed: when the base set has no match for L and a registered
\* factory can create L, find(L, true) returns the newly created component
\* and the parent set holds it under a locator matching L; and a find for L
\* right after a find that built and returned a component finds that
\* component in the parent set and calls no factory's create.
C1_BuiltIsReturnedAndCached ==
    [][/\ (/\ call'.op = "find"
           /\ call'.required
           /\ RefFind(baseReferences, call'.locator) = <<>>
           /\ Buildable(baseReferences, call'.locator))
          => /\ call'.raised = "none"
             /\ call'.component # Null
             /\ InSeq(call'.component, call'.result)
             /\ InSeq(call'.component, RefFind(ParentSet', call'.locator))
       /\ (/\ call.op = "find"
           /\ call.registered
           /\ call'.op = "find"
           /\ call'.required
           /\ call'.locator = call.locator)
          => /\ InSeq(call.component, RefFind(ParentSet, call.locator))
             /\ shared => (call'.created = <<>> /\ InSeq(call.component, call'.result))
      ]_vars

\* C2, as claimed: when a factory has created the component and the put into
\* the parent set fails, find still returns the component and does not fail.
C2_RegistrationFailureStillReturns ==
    (call.op = "find" /\ call.component # Null /\ ~call.putOk)
        => (call.raised = "none" /\ InSeq(call.component, call.result))

\* C3, as claimed: a canCreate that raises counts as "cannot create": find
\* never fails with the probe's error, and the factory it uses is the first
\* later one whose canCreate returns a locator.
C3_FailingProbeIsSkipped ==
    [][(/\ call'.op = "find"
        /\ call'.required
        /\ RefFind(baseReferences, call'.locator) = <<>>)
       => /\ call'.raised # "ProbeError"
          /\ call'.factory = TolerantFactoryFrom(RefGetAll(baseReferences), 1, call'.locator)
      ]_vars

\* C10, as claimed: find(L, true) fails with ReferenceNotFound exactly when
\* the base set has no match and no component was built; in every other case
\* it returns a non-empty result.
C10_NotFoundIffNothingFoundOrBuilt ==
    (call.op = "find" /\ call.required)
        => /\ (call.raised = "ReferenceException")
                <=> (call.found = <<>> /\ call.component = Null)
           /\ (call.raised # "ReferenceException")
                => (call.raised = "none" /\ call.result # <<>>)

\* C11: find calls a factory or writes to a reference set only when required
\* is true and the base lookup found nothing; find(L, false), and find(L, true)
\* with a base match, do not fail, call no canCreate and no create, return
\* the base matches and leave the base and parent sets unchanged.
C11_LazyBuildOnDemand ==
    [][(call'.op = "find")
       => /\ (~call'.required \/ RefFind(baseReferences, call'.locator) # <<>>)
             => /\ call'.raised = "none"
                /\ call'.probed = <<>>
                /\ call'.created = <<>>
                /\ call'.result = RefFind(baseReferences, call'.locator)
                /\ baseReferences' = baseReferences
                /\ parentReferences' = parentReferences
          /\ (\/ call'.probed # <<>>
              \/ call'.created # <<>>
              \/ baseReferences' # baseReferences
              \/ parentReferences' # parentReferences)
             => (call'.required /\ RefFind(baseReferences, call'.locator) = <<>>)
      ]_vars

\* C11, witness: a required find has returned a base match while a
\* registered factory could have created the locator, and a find that was
\* not required has returned nothing while a factory could have created it.
C11_Witness ==
    /\ call.op = "find"
    /\ TolerantFactoryFrom(RefGetAll(baseReferences), 1, call.locator) # Null
    /\ call.raised = "none"
    /\ call.probed = <<>>
    /\ \/ call.required /\ call.found # <<>>
       \/ ~call.required /\ call.result = <<>>

\* C12: when the create of the factory that find selected raises, create
\* returns none, find writes to neither reference set and fails with
\* ReferenceNotFound (not with the factory's error), returning nothing.
C12_ConstructionFailureIsNotFound ==
    [][(/\ call'.op = "find"
        /\ call'.created # <<>>
        /\ CreateOf(call'.factory, call'.locator) = "raise")
       => /\ call'.component = Null
          /\ call'.putLocator = NullLoc
          /\ ~call'.registered
          /\ call'.raised = "ReferenceException"
          /\ call'.result = <<>>
          /\ baseReferences' = baseReferences
          /\ parentReferences' = parentReferences
      ]_vars

\* C12, witness: a required find has called the create of factory F2 for a
\* locator F2 can create, that create raised, and find failed with
\* ReferenceNotFound.
C12_Witness ==
    /\ call.op = "find"
    /\ call.created = <<"F2">>
    /\ CanCreateOf("F2", call.locator) = call.locator
    /\ CreateOf("F2", call.locator) = "raise"
    /\ call.raised = "ReferenceException"

\* The field a merge of an original and a factory-supplied field must give.
MergedField(original, supplied) == IF original = Null THEN supplied ELSE original

\* C13 (checked under SpecClarify): for a descriptor L and a factory whose
\* canCreate(L) is a descriptor A, clarifyLocator returns a descriptor each
\* of whose five fields is L's field when that is non-null and A's otherwise.
C13_ClarifyLocatorMerges ==
    (/\ call.op = "clarifyLocator"
     /\ call.factory # Null
     /\ IsDescriptor(call.locator)
     /\ IsDescriptor(CanCreateOf(call.factory, call.locator)))
    => /\ call.raised = "none"
       /\ Len(call.result) = 1
       /\ LET a == CanCreateOf(call.factory, call.locator)
              l == call.locator
              r == call.result[1]
          IN  /\ IsDescriptor(r)
              /\ r.group = MergedField(l.group, a.group)
              /\ r.type = MergedField(l.type, a.type)
              /\ r.kind = MergedField(l.kind, a.kind)
              /\ r.name = MergedField(l.name, a.name)
              /\ r.version = MergedField(l.version, a.version)

\* C13, witness: clarifyLocator has merged (g, null, k, null, null) with the
\* factory-supplied (g2, t, k2, n, v) into (g, t, k, n, v).
C13_Witness ==
    /\ call.op = "clarifyLocator"
    /\ call.locator = Descriptor("g", Null, "k", Null, Null)
    /\ CanCreateOf(call.factory, call.locator) = Descriptor("g2", "t", "k2", "n", "v")
    /\ call.result = <<Descriptor("g", "t", "k", "n", "v")>>

\* The locator a component built by factory f for locator l is to be
\* registered under: l merged with f's canCreate(l) when both are descriptors.
ExpectedClarified(l, f) ==
    LET a == CanCreateOf(f, l)
    IN  IF IsDescriptor(l) /\ IsDescriptor(a)
        THEN Descriptor(MergedField(l.group, a.group), MergedField(l.type, a.type),
                        MergedField(l.kind, a.kind), MergedField(l.name, a.name),
                        MergedField(l.version, a.version))
        ELSE l

\* C14 (checked under SpecBuild): a find that built and registered a
\* component appended exactly one entry, (clarified locator, component), to
\* the parent set and, when the parent is another set than the base, left
\* the base set unchanged; a find that registered nothing changed neither.
C14_RegisteredInParentOnce ==
    [][(call'.op = "find")
       => /\ call'.registered
             => /\ call'.component # Null
                /\ call'.putLocator = ExpectedClarified(call'.locator, call'.factory)
                /\ ParentSet' = Append(ParentSet,
                                       Reference(ExpectedClarified(call'.locator, call'.factory),
                                                 call'.component))
                /\ ~shared => baseReferences' = baseReferences
                /\ shared => parentReferences' = parentReferences
          /\ ~call'.registered
             => /\ baseReferences' = baseReferences
                /\ parentReferences' = parentReferences
      ]_vars

\* C14, witness: with a parent set other than the base set, find has built a
\* component and the parent set ends with it, under a clarified locator that
\* differs from the locator asked for, while the base set does not hold it.
C14_Witness ==
    /\ call.op = "find"
    /\ call.registered
    /\ ~shared
    /\ call.putLocator # call.locator
    /\ Len(parentReferences) > 0
    /\ parentReferences[Len(parentReferences)] = Reference(call.putLocator, call.component)
    /\ ~InSeq(call.component, RefGetAll(baseReferences))

\* C18, as claimed: findFactory(L) returns the first component of getAll()
\* that has both canCreate and create and whose canCreate(L) is a locator,
\* none when there is no such component, and calls canCreate on no component
\* that lacks either operation.
C18_FindFactoryFirstMatch ==
    (call.op = "findFactory")
    => /\ call.raised = "none"
       /\ call.result = <<TolerantFactoryFrom(RefGetAll(baseReferences), 1, call.locator)>>
       /\ \A i \in 1..Len(call.probed) :
             HasCanCreate(call.probed[i]) /\ HasCreate(call.probed[i])

\* C19, as claimed: whenever find(L, true) fails with ReferenceNotFound, the
\* error carries the locator L the caller passed.
C19_NotFoundCarriesCallersLocator ==
    (call.op = "find" /\ call.raised = "ReferenceException")
        => call.errLocator = call.locator

---------------------------------------------------------------------------
\* Properties of the Run decorator (checked under SpecRun).

\* C4: when a component's open reports an error to a bulk open, the bulk open
\* ends in that step, the decorator's callback gets that component's error,
\* no other component is opened in the step or later by this batch (the batch
\* is gone), and the flag is left as it was: false whenever no other open
\* overlapped this one.
C4_OpenFailureSurfaced ==
    [][(event'.op = "openCallback" /\ event'.outcome # Null)
       => /\ event'.ended = "open"
          /\ event'.err = event'.outcome
          /\ event'.invoked = <<>>
          /\ Len(batches') = Len(batches) - 1
          /\ running' = running
          /\ opened' = opened
          /\ event'.alone => ~opened'
      ]_vars

\* C4, witness: a bulk open has just ended with the error of a component
\* that was not the last one of the batch, and the decorator is not opened.
C4_Witness ==
    /\ event.op = "openCallback"
    /\ event.err # Null
    /\ event.dropped # <<>>
    /\ event.alone
    /\ ~opened

C6_AtMostOneOpen ==
    [][\A c \in {x \in RunComponents : HasOpen(x)} :
           (event'.invoked = <<<<"open", c>>>>) => ~running[c]
      ]_vars

\* C7: put appends the pair to the base set; it opens exactly the component
\* put (when that component can be opened) if the flag is true and makes no
\* component call if the flag is false; it changes neither the flag nor the
\* bulk operations in flight.
C7_PutOpensWhenOpened ==
    [][(event'.op = "put")
       => /\ runReferences' = Append(runReferences,
                                     Reference(event'.locator, event'.component))
          /\ event'.invoked = IF opened /\ HasOpen(event'.component)
                              THEN <<<<"open", event'.component>>>>
                              ELSE <<>>
          /\ opened' = opened
          /\ batches' = batches
      ]_vars

\* C7, witness: a component has just been put while opened and its open was
\* invoked.
C7_Witness ==
    /\ event.op = "put"
    /\ event.flag
    /\ event.invoked = <<<<"open", event.component>>>>

\* C8, as claimed: remove and removeAll take the matching entries out of the
\* base set and return them; if the flag is true, close is invoked on each
\* removed component (for removeAll: by the time its bulk close has ended)
\* and on no other; if the flag is false, no close is invoked.
C8_RemovedAreClosed ==
    [][/\ (event'.op = "remove")
          => /\ runReferences' = RefRemove(runReferences, event'.locator)
             /\ event'.returned = RefRemoved(runReferences, event'.locator)
             /\ event'.invoked = IF opened /\ event'.returned # <<>>
                                 THEN CloseOne(event'.returned[1]) ELSE <<>>
       /\ (event'.op = "removeAll")
          => /\ runReferences' = RefRemoveAll(runReferences, event'.locator)
             /\ event'.returned = RefFind(runReferences, event'.locator)
             /\ ~opened => event'.invoked = <<>>
             /\ \A i \in 1..Len(event'.invoked) : InSeq(event'.invoked[i][2], event'.returned)
       /\ (event'.ended = "removeAll") => event'.dropped = <<>>
      ]_vars

\* C9, as claimed: an open called right after another open has completed
\* (with or without an error), with no close in between, invokes no
\* component's open and calls back without error.
C9_SecondOpenIsNoOp ==
    (event.op = "open" /\ event.prev \in {"openOk", "openErr"})
        => (event.invoked = <<>> /\ event.ended = "open" /\ event.err = Null)

\* C9, amended: an open called right after an open that completed without
\* error finds the flag true, invokes no component's open and calls back
\* without error.
C9_SecondOpenAfterSuccessIsNoOp ==
    (event.op = "open" /\ event.prev = "openOk")
        => /\ event.flag
           /\ opened
           /\ event.invoked = <<>>
           /\ event.ended = "open"
           /\ event.err = Null

\* C9, witness: an open has just been called right after a successful open
\* of a set that holds a component with an open operation.
C9_Witness ==
    /\ event.op = "open"
    /\ event.prev = "openOk"
    /\ \E i \in 1..Len(runReferences) : HasOpen(runReferences[i].component)
    /\ event.invoked = <<>>

\* The components of the base set that a bulk operation of the given kind
\* is to call, in insertion order.
InOrder(kind) ==
    SelectSeq(RefGetAll(runReferences), LAMBDA c : Capable(kind, c))

\* C15: a bulk open (close) started by open() (close()) is to call the
\* openable (closable) components of getAll() in insertion order and starts
\* with the first of them only; a component's callback starts at most one
\* component operation, that of the component next in the batch's order, and
\* only when the operation that completed reported no error; every batch in
\* flight has exactly one component operation in flight (the head of the
\* components it still has to complete).
C15_BulkIsSequentialInOrder ==
    [][/\ \A kind \in {"open", "close"} :
           (event'.op = kind /\ event'.invoked # <<>>)
           => /\ Len(batches') = Len(batches) + 1
              /\ batches'[Len(batches')].kind = kind
              /\ batches'[Len(batches')].rest = InOrder(kind)
              /\ event'.invoked = <<<<kind, InOrder(kind)[1]>>>>
       /\ (event'.op \in {"openCallback", "closeCallback", "removeAllCallback"})
          => /\ Len(event'.invoked) <= 1
             /\ event'.invoked # <<>>
                => /\ event'.outcome = Null
                   /\ \E i \in 1..Len(batches) :
                         /\ batches' = [batches EXCEPT ![i].rest = Tail(batches[i].rest)]
                         /\ event'.invoked =
                              <<<<OpOf(batches[i].kind), batches[i].rest[2]>>>>
       /\ \A i \in 1..Len(batches') : batches'[i].rest # <<>>
      ]_vars

\* C15, witness: with A registered before B, a bulk open has called A first
\* and, A's open having completed, has just called B.
C15_Witness ==
    /\ event.op = "openCallback"
    /\ event.invoked = <<<<"open", "B">>>>
    /\ \E i, j \in 1..Len(runReferences) :
          /\ i < j
          /\ runReferences[i].component = "A"
          /\ runReferences[j].component = "B"
    /\ \E i \in 1..Len(batches) : batches[i].kind = "open" /\ batches[i].rest = <<"B">>

\* C16, as documented on close: when the bulk close of close() ends with a
\* component's error, the decorator is not considered closed: the flag, and
\* so isOpen(), is still true.
C16_FailedCloseStaysOpen ==
    (event.op = "closeCallback" /\ event.ended = "close" /\ event.err # Null) => opened

\* C17: the step in which a bulk open ends with a component's error invokes
\* no close and leaves every component it had opened running; a close called
\* right after it, the flag being false, invokes no component's close, calls
\* back without error, and leaves the flag false and those components
\* running.
C17_NoRollbackAfterFailedOpen ==
    [][/\ (event'.op = "openCallback" /\ event'.outcome # Null)
          => /\ event'.invoked = <<>>
             /\ running' = running
       /\ (event'.op = "close" /\ PrevOf(event) = "openErr" /\ ~opened)
          => /\ event'.invoked = <<>>
             /\ event'.ended = "close"
             /\ event'.err = Null
             /\ ~opened'
             /\ batches' = batches
             /\ running' = running
      ]_vars

\* C17, witness: a bulk open over A then B has failed at B after A's open
\* had completed, a close has just been called with the flag false, and A,
\* still registered, is still running.
C17_Witness ==
    /\ event.op = "close"
    /\ event.prev = "openErr"
    /\ ~event.flag
    /\ event.invoked = <<>>
    /\ ~opened
    /\ running["A"]
    /\ InSeq("A", RefGetAll(runReferences))
    /\ batches = <<>>

\* C20, as claimed: whenever isOpen() is true (taken here with no bulk
\* operation in flight), every component of the base set that can be opened
\* has had its open invoked since its last close.
C20_OpenedImpliesAllOpened ==
    (opened /\ batches = <<>>)
        => \A i \in 1..Len(runReferences) :
               HasOpen(runReferences[i].component) => running[runReferences[i].component]

\* C21, as claimed: when a bulk close started by close() on an opened
\* decorator has ended without error, no component of the base set is
\* running (opened and not closed since).
C21_ClosedImpliesNoneOpened ==
    (/\ event.ended = "close"
     /\ event.err = Null
     /\ (event.op = "closeCallback" \/ event.flag))
    => \A i \in 1..Len(runReferences) :
           HasOpen(runReferences[i].component) => ~running[runReferences[i].component]

\* C22: the flag changes only in a step in which a bulk open or a bulk close
\* of the decorator ends: from false to true when a bulk open ends without
\* error, from true to false when a bulk close ends; put, remove, removeAll
\* (and the completion of its bulk close) and isOpen leave it as it is, and
\* isOpen returns it.
C22_FlagChangesOnlyAtCompletion ==
    [][/\ (opened' # opened)
          => \/ ~opened /\ opened' /\ event'.ended = "open" /\ event'.err = Null
             \/ opened /\ ~opened' /\ event'.ended = "close"
       /\ (event'.op \in {"put", "remove", "removeAll", "removeAllCallback", "isOpen"})
          => opened' = opened
       /\ (event'.op = "isOpen") => event'.returned = <<opened>>
       /\ (event'.ended = "open" /\ event'.err # Null) => opened' = opened
      ]_vars

\* C22, witness: the callback of the last component of a bulk open has just
\* turned the flag from false to true, after a put made while that bulk open
\* was in flight had left it false.
C22_Witness ==
    /\ event.op = "openCallback"
    /\ event.ended = "open"
    /\ ~event.flag
    /\ opened
    /\ \E i \in 1..Len(runReferences) :
          /\ HasOpen(runReferences[i].component)
          /\ ~running[runReferences[i].component]

====
